---- MODULE Spec2Model ----
(***************************************************************************)
(* Model of the mindmap server (server.js), of its D3 graph renderer       *)
(* (graph.js) and of the page driving it (app.js).                         *)
(*                                                                         *)
(*   SpecExpand  the SQLite store holding two graphs and the handler of    *)
(*               GET /api/graph/:id/node/:name (neighbor expansion).       *)
(*   SpecRender  GraphRenderer.init / render / highlightNodes on a         *)
(*               fetched {nodes, relationships} payload.                   *)
(*   SpecSearch  the handler of GET /api/graph/:id/search.                 *)
(*   SpecSync    the handler of POST /api/sync on an empty database.       *)
(*   SpecLayout  one rendered graph under simulation ticks, drag gestures, *)
(*               zoom events and focusNode, with the minimap.              *)
(*   SpecTier    the force parameters render chooses by node count.        *)
(*   SpecApp     the page's loadGraph with its fetches in flight.          *)
(***************************************************************************)
EXTENDS Integers, Sequences, FiniteSets, TLC

VARIABLES
    nodesTbl,        \* table nodes: sequence of rows, in rowid order
    relsTbl,         \* table relationships: sequence of rows, in rowid order
    graphsTbl,       \* table graphs: set of rows
    req,             \* the HTTP request the server answered last
    resp,            \* the HTTP response to it (status 0: none outstanding)
    svg,             \* GraphRenderer.svg is set (init has run)
    graphData,       \* the fetched payload handed to GraphRenderer.render
    nodes,           \* GraphRenderer.nodes
    links,           \* GraphRenderer.links
    searchMatches,   \* GraphRenderer.searchMatches
    isSearchActive,  \* GraphRenderer.isSearchActive
    nodeElements,    \* per node circle: its CSS classes (<<>> before render)
    nodeLabels,      \* per node label: its CSS classes
    linkElements,    \* per link line: its CSS classes
    linkLabels,      \* per link label: its CSS classes
    rendered,        \* render has built the elements (nodeElements != null)
    op               \* the renderer method that ran last, with its argument
                     \* (had: some element carried a highlight class before)
VARIABLES
    pos,             \* per node: its simulated position (d.x, d.y)
    pins,            \* per node: its pin (d.fx, d.fy), or none
    gestures,        \* the drag gestures in progress: pointer and node index
    alphaTarget,     \* simulation.alphaTarget(), in tenths
    transform,       \* the zoom transform, scale and translation doubled
    minimap,         \* the dots updateMinimap drew last: fractions of a pixel
    simParams,       \* the parameters the simulation was created with
    ev               \* the pointer, timer or focus event handled last
VARIABLES
    currentGraphId,   \* app.js currentGraphId ("" for null)
    currentGraphData, \* app.js currentGraphData
    fetches,          \* API.graph promises not yet settled (afterEmpty: the
                      \* call was made with the empty state on display)
    loads,            \* number of loadGraph calls that issued a fetch
    container,        \* content of #graph-container: "svg" or "empty"
    loading,          \* the loading overlay is shown
    appEvent,         \* the loadGraph step taken last
    searchInput,      \* value of the search field
    searchTimeout,    \* the debounce timer of the search field, if pending
    searches,         \* API.search promises not yet settled
    searchCount,      \* number of searches issued
    cleared           \* clearSearch ran and no non-empty query was typed since

storeVars == <<nodesTbl, relsTbl, graphsTbl>>
httpVars == <<req, resp>>
rendVars == <<svg, graphData, nodes, links, searchMatches, isSearchActive,
              nodeElements, nodeLabels, linkElements, linkLabels, rendered, op>>
layoutVars == <<pos, pins, gestures, alphaTarget, transform, minimap, simParams, ev>>
appVars == <<currentGraphId, currentGraphData, fetches, loads, container, loading,
             appEvent, searchInput, searchTimeout, searches, searchCount, cleared>>
vars == <<nodesTbl, relsTbl, graphsTbl, req, resp, svg, graphData, nodes, links,
          searchMatches, isSearchActive, nodeElements, nodeLabels, linkElements,
          linkLabels, rendered, op, pos, pins, gestures, alphaTarget, transform,
          minimap, simParams, ev, currentGraphId, currentGraphData, fetches, loads,
          container, loading, appEvent, searchInput, searchTimeout, searches,
          searchCount, cleared>>

(***************************************************************************)
(* Bounds of the model                                                     *)
(***************************************************************************)
\* most relationship rows synced into the graph under expansion
MaxRels == 4
\* largest requested depth (the clamp is at 3, so 4 is beyond it)
MaxDepthReq == 4
\* requested depths go down to -MaxNegDepth
MaxNegDepth == 1

\* most nodes and most relationships of a payload handed to render
MaxRNodes == 2
MaxRRels == 2

\* Math.min(..., 3) in the expansion handler
MaxDepth == 3

Range(s) == {s[i] : i \in 1..Len(s)}

Min2(a, b) == IF a < b THEN a ELSE b

(***************************************************************************)
(* The store: rows as POST /api/sync inserts them                          *)
(***************************************************************************)
GraphIds == {"g1", "g2"}

Names == {"A", "B", "C", "D"}

NameOrder == <<"A", "B", "C", "D">>

\* The relationships a sync payload of the model may carry, in payload order.
EdgePool ==
    << [id |-> "r1", source |-> "C", target |-> "D"],
       [id |-> "r2", source |-> "A", target |-> "B"],
       [id |-> "r3", source |-> "B", target |-> "C"],
       [id |-> "r4", source |-> "A", target |-> "C"],
       [id |-> "r5", source |-> "B", target |-> "D"],
       [id |-> "r6", source |-> "B", target |-> "A"],
       [id |-> "r7", source |-> "A", target |-> "A"],
       [id |-> "r8", source |-> "A", target |-> "B"] >>

RelIds == {EdgePool[i].id : i \in 1..Len(EdgePool)}

\* A payload node without an id is stored under id = name.
insertNode(id, node) == [id |-> node, graph_id |-> id, name |-> node]

insertRel(id, rel) ==
    [id |-> rel.id, graph_id |-> id, source |-> rel.source, target |-> rel.target]

RECURSIVE MapSeq(_, _, _)
MapSeq(F(_, _), id, s) ==
    IF s = <<>> THEN <<>> ELSE <<F(id, Head(s))>> \o MapSeq(F, id, Tail(s))

\* The rows one accepted sync of graph id holds afterwards.
NodeRows(id, nameSet) ==
    MapSeq(insertNode, id, SelectSeq(NameOrder, LAMBDA n : n \in nameSet))

RelRows(id, relIdSet) ==
    MapSeq(insertRel, id, SelectSeq(EdgePool, LAMBDA e : e.id \in relIdSet))

GraphRow(id, nameSet, relIdSet) ==
    [id |-> id, node_count |-> Cardinality(nameSet), rel_count |-> Cardinality(relIdSet)]

Payloads ==
    {[nodes |-> ns, relationships |-> rs] :
        ns \in SUBSET Names,
        rs \in {x \in SUBSET RelIds : Cardinality(x) <= MaxRels}}

\* What the second graph holds: nothing (never synced), or every name and
\* every relationship of the pool.
OtherPayloads ==
    {[synced |-> FALSE, nodes |-> {}, relationships |-> {}],
     [synced |-> TRUE, nodes |-> Names, relationships |-> RelIds]}

(***************************************************************************)
(* GET /api/graph/:id/node/:name                                           *)
(***************************************************************************)
\* parseInt(req.query.depth) || 1, then Math.min(_, 3).  hasDepth is FALSE
\* when the parameter is missing or not a number (parseInt gives NaN).
EffDepthDefault3(hasDepth, depth) ==
    Min2(IF ~hasDepth \/ depth = 0 THEN MaxDepth ELSE depth, MaxDepth)

EffDepthNoClamp(hasDepth, depth) ==
    IF ~hasDepth \/ depth = 0 THEN 1 ELSE depth

EffDepth(hasDepth, depth) ==
    Min2(IF ~hasDepth \/ depth = 0 THEN 1 ELSE depth, MaxDepth)

\* SELECT * FROM nodes WHERE graph_id = ? AND name = ?   (.get: first row)
FindNodeAnyGraph(graphId, name) ==
    SelectSeq(nodesTbl, LAMBDA n : n.name = name)

FindNode(graphId, name) ==
    SelectSeq(nodesTbl, LAMBDA n : n.graph_id = graphId /\ n.name = name)

\* SELECT * FROM relationships WHERE graph_id = ? AND source IN (frontier)
outRelsByTarget(graphId, frontier) ==
    SelectSeq(relsTbl, LAMBDA r : r.graph_id = graphId /\ r.target \in Range(frontier))

outRels(graphId, frontier) ==
    SelectSeq(relsTbl, LAMBDA r : r.graph_id = graphId /\ r.source \in Range(frontier))

\* SELECT * FROM relationships WHERE graph_id = ? AND target IN (frontier)
inRelsBySource(graphId, frontier) ==
    SelectSeq(relsTbl, LAMBDA r : r.graph_id = graphId /\ r.source \in Range(frontier))

inRels(graphId, frontier) ==
    SelectSeq(relsTbl, LAMBDA r : r.graph_id = graphId /\ r.target \in Range(frontier))

\* if (!visited.has(name)) { visited.add; nextFrontier.push; lookup; push }
VisitName(graphId, name, st) ==
    IF name \in st.visited
    THEN st
    ELSE LET neighbor == FindNode(graphId, name)
         IN [st EXCEPT !.visited = @ \cup {name},
                       !.nextFrontier = Append(@, name),
                       !.allNodes = IF neighbor # <<>> THEN Append(@, neighbor[1]) ELSE @]

\* the body of  for (const rel of rels)
VisitRel(graphId, rel, st) ==
    LET pushed == [st EXCEPT !.allRels = Append(@, rel)]
    IN VisitName(graphId, rel.target, VisitName(graphId, rel.source, pushed))

RECURSIVE ScanRels(_, _, _)
ScanRels(graphId, rels, st) ==
    IF rels = <<>> THEN st
    ELSE ScanRels(graphId, Tail(rels), VisitRel(graphId, Head(rels), st))

\* One pass of the round loop's body; expanded records the frontier it used.
Round(graphId, st) ==
    LET rels == outRels(graphId, st.frontier) \o inRels(graphId, st.frontier)
        scanned == ScanRels(graphId, rels, [st EXCEPT !.nextFrontier = <<>>])
    IN [scanned EXCEPT !.frontier = scanned.nextFrontier,
                       !.expanded = Append(@, st.frontier)]

\* for (let d = 0; d < depth; d++) { if (frontier.length === 0) break; ... }
RECURSIVE RoundLoop(_, _, _, _)
RoundLoop(graphId, st, d, depth) ==
    IF d < depth /\ st.frontier # <<>>
    THEN RoundLoop(graphId, Round(graphId, st), d + 1, depth)
    ELSE st

\* Deduplicate relationships: keep the first row of each key graph_id-id.
\* Every row of one response carries the request's graph_id, so two keys are
\* equal exactly when the ids are.
RelKey(r) == <<r.graph_id, r.id>>

uniqueRelsNoDedup(allRels) == allRels

uniqueRels(allRels) ==
    LET first(i) == \A j \in 1..(i - 1) : RelKey(allRels[j]) # RelKey(allRels[i])
        kept == SelectSeq([i \in 1..Len(allRels) |-> i], first)
    IN [k \in 1..Len(kept) |-> allRels[kept[k]]]

\* The handler as a function of the store snapshot and the request.
Expand(graphId, nodeName, hasDepth, rawDepth) ==
    LET depth == EffDepth(hasDepth, rawDepth)
        node == FindNode(graphId, nodeName)
    IN IF node = <<>>
       THEN [status |-> 404, error |-> "Node not found"]
       ELSE LET st == RoundLoop(graphId,
                          [visited |-> {nodeName}, frontier |-> <<nodeName>>,
                           nextFrontier |-> <<>>, allNodes |-> <<node[1]>>,
                           allRels |-> <<>>, expanded |-> <<>>],
                          0, depth)
            IN [status |-> 200, node |-> st.allNodes[1], nodes |-> st.allNodes,
                relationships |-> uniqueRels(st.allRels),
                expanded |-> st.expanded]

NoReq == [kind |-> "none"]
NoResp == [status |-> 0]

DepthReqs == (0 - MaxNegDepth)..MaxDepthReq

GetNode(graphId, nodeName, hasDepth, rawDepth) ==
    /\ resp = NoResp
    /\ req' = [kind |-> "node", id |-> graphId, name |-> nodeName,
               hasDepth |-> hasDepth, depth |-> rawDepth]
    /\ resp' = Expand(graphId, nodeName, hasDepth, rawDepth)
    /\ UNCHANGED <<storeVars, rendVars, layoutVars, appVars>>

\* api.js: fetch(...).then(r => r.json()) consumes the response.
ApiResolve ==
    /\ resp # NoResp
    /\ resp' = NoResp
    /\ req' = NoReq
    /\ UNCHANGED <<storeVars, rendVars, layoutVars, appVars>>

\* d.fx = d.fy = null
NoPin == [set |-> FALSE, fx |-> 0, fy |-> 0]

\* d3.zoomIdentity: scale 1, no translation (all three doubled)
Identity == [k2 |-> 2, x2 |-> 0, y2 |-> 0]

NoSim == [n |-> 0, charge |-> 0, distance |-> 0, alphaDecay100 |-> 0,
          fastForward |-> FALSE]

NoEvent == [type |-> "none", node |-> 0, name |-> "", before |-> Identity]

Event(type, node) == [type |-> type, node |-> node, name |-> "", before |-> Identity]

\* currentGraphData = null
NoData == [kind |-> "null"]

NoAppEvent == [e |-> "none", seq |-> 0, id |-> "", afterEmpty |-> FALSE]

\* No simulation yet, no gesture, the identity transform, an empty minimap.
LayoutIdle ==
    /\ pos = <<>>
    /\ pins = <<>>
    /\ gestures = {}
    /\ alphaTarget = 0
    /\ transform = Identity
    /\ minimap = <<>>
    /\ simParams = NoSim
    /\ ev = NoEvent

\* searchTimeout = null, or a timer that fired or was cleared
NoTimer == [set |-> FALSE, q |-> ""]

\* The search field untouched.
SearchIdle ==
    /\ searchInput = ""
    /\ searchTimeout = NoTimer
    /\ searches = {}
    /\ searchCount = 0
    /\ cleared = FALSE

\* The page before its init has run.
AppIdle ==
    /\ SearchIdle
    /\ currentGraphId = ""
    /\ currentGraphData = NoData
    /\ fetches = {}
    /\ loads = 0
    /\ container = "blank"
    /\ loading = TRUE
    /\ appEvent = NoAppEvent

RendIdle ==
    /\ svg = FALSE
    /\ graphData = [nodes |-> <<>>, relationships |-> <<>>]
    /\ nodes = <<>>
    /\ links = <<>>
    /\ searchMatches = {}
    /\ isSearchActive = FALSE
    /\ nodeElements = <<>>
    /\ nodeLabels = <<>>
    /\ linkElements = <<>>
    /\ linkLabels = <<>>
    /\ rendered = FALSE
    /\ op = [m |-> "none", names |-> {}, had |-> FALSE]

InitExpand ==
    /\ \E p \in Payloads, q \in OtherPayloads :
          /\ nodesTbl = NodeRows("g1", p.nodes) \o NodeRows("g2", q.nodes)
          /\ relsTbl = RelRows("g1", p.relationships) \o RelRows("g2", q.relationships)
          /\ graphsTbl = {GraphRow("g1", p.nodes, p.relationships)}
                           \cup (IF q.synced
                                 THEN {GraphRow("g2", q.nodes, q.relationships)}
                                 ELSE {})
    /\ req = NoReq
    /\ resp = NoResp
    /\ RendIdle
    /\ LayoutIdle
    /\ AppIdle

NextExpand ==
    \/ \E g \in GraphIds, n \in Names, d \in DepthReqs : GetNode(g, n, TRUE, d)
    \/ \E g \in GraphIds, n \in Names : GetNode(g, n, FALSE, 0)
    \/ ApiResolve

SpecExpand == InitExpand /\ [][NextExpand]_vars

(***************************************************************************)
(* GET /api/graph/:id/search                                               *)
(***************************************************************************)
\* LIMIT 50
SearchLimit == 50

\* Node names of the searched store and query strings, with their characters.
SearchNames == <<"A", "ab", "B">>

QueryStrings == {"", "a", "A", "ab", "b", "_", "%"}

Chars(str) ==
    CASE str = "" -> <<>>
      [] str = "ab" -> <<"a", "b">>
      [] OTHER -> <<str>>

\* SQLite folds the ASCII letters when LIKE compares two characters.
LowerChar(c) ==
    CASE c = "A" -> "a"
      [] c = "B" -> "b"
      [] OTHER -> c

\* name LIKE pat without ESCAPE: % matches any run of characters, _ any one
\* character, every other character itself up to ASCII case.
RECURSIVE Like(_, _)
Like(pat, str) ==
    IF pat = <<>> THEN str = <<>>
    ELSE IF Head(pat) = "%"
    THEN \E k \in 0..Len(str) : Like(Tail(pat), SubSeq(str, k + 1, Len(str)))
    ELSE /\ str # <<>>
         /\ \/ Head(pat) = "_"
            \/ LowerChar(Head(pat)) = LowerChar(Head(str))
         /\ Like(Tail(pat), Tail(str))

\* the handler: [] for an empty q, else the first 50 rows of the graph whose
\* name is LIKE %q%
Search(graphId, q) ==
    IF q = "" THEN [status |-> 200, rows |-> <<>>]
    ELSE LET pat == <<"%">> \o Chars(q) \o <<"%">>
             hits == SelectSeq(nodesTbl,
                         LAMBDA r : r.graph_id = graphId /\ Like(pat, Chars(r.name)))
         IN [status |-> 200, rows |-> SubSeq(hits, 1, Min2(Len(hits), SearchLimit))]

SearchNodes(graphId, q) ==
    /\ resp = NoResp
    /\ req' = [kind |-> "search", id |-> graphId, q |-> q]
    /\ resp' = Search(graphId, q)
    /\ UNCHANGED <<storeVars, rendVars, layoutVars, appVars>>

\* Graph g1 holds any of the names, graph g2 the name ab or nothing.
InitSearch ==
    /\ \E held \in SUBSET Range(SearchNames), other \in SUBSET {"ab"} :
          nodesTbl = MapSeq(insertNode, "g1",
                            SelectSeq(SearchNames, LAMBDA n : n \in held))
                        \o MapSeq(insertNode, "g2",
                                  SelectSeq(SearchNames, LAMBDA n : n \in other))
    /\ relsTbl = <<>>
    /\ graphsTbl = {}
    /\ req = NoReq
    /\ resp = NoResp
    /\ RendIdle
    /\ LayoutIdle
    /\ AppIdle

NextSearch ==
    \/ \E g \in GraphIds, q \in QueryStrings : SearchNodes(g, q)
    \/ ApiResolve

SpecSearch == InitSearch /\ [][NextSearch]_vars

(***************************************************************************)
(* GraphRenderer (graph.js)                                                *)
(***************************************************************************)
\* Names of the payloads: two names that differ in case only, and a name
\* that every plain object inherits from Object.prototype.
RNames == {"A", "a", "constructor"}

\* String(n.id) of the numeric ids 1, 2, ...
IdStr(i) == <<"1", "2", "3", "4">>[i]

\* String.prototype.toLowerCase on the strings of the model
toLowerCase(str) ==
    CASE str = "A" -> "a"
      [] str = "B" -> "b"
      [] str = "C" -> "c"
      [] str = "Object" -> "object"
      [] OTHER -> str

\* Property names a plain object {} inherits, and the name property of the
\* inherited value ({}.constructor is the function Object).
ProtoKeys == {"constructor"}

ProtoValueName(key) == "Object"

Undefined == [kind |-> "undefined", idx |-> 0, key |-> ""]

NodeRef(i) == [kind |-> "node", idx |-> i, key |-> ""]

\* this.nodes = graphData.nodes.map(n => ({id: String(n.id),
\*     name: n.name || String(n.id), ...}))
MapNodes(gd) ==
    [i \in 1..Len(gd.nodes) |->
        [id |-> IdStr(gd.nodes[i].id),
         name |-> IF gd.nodes[i].name # "" THEN gd.nodes[i].name
                  ELSE IdStr(gd.nodes[i].id),
         connections |-> 0]]

\* nodeMap[key] on the plain object filled by nodeMap[node.name] = node: the
\* last node of that name, else what {} inherits under that key, else
\* undefined.
nodeMapGet(ns, key) ==
    LET own == {i \in 1..Len(ns) : ns[i].name = key}
    IN IF own # {} THEN NodeRef(CHOOSE i \in own : \A j \in own : j <= i)
       ELSE IF key \in ProtoKeys THEN [kind |-> "builtin", idx |-> 0, key |-> key]
       ELSE Undefined

\* src.name of a resolved endpoint
RefName(ns, ref) ==
    IF ref.kind = "node" THEN ns[ref.idx].name ELSE ProtoValueName(ref.key)

\* connectionCount[name] || 0
CountOf(cc, name) == IF name \in DOMAIN cc THEN cc[name] ELSE 0

\* connectionCount[name] = (connectionCount[name] || 0) + 1
Bump(cc, name) ==
    [k \in DOMAIN cc \cup {name} |-> IF k = name THEN CountOf(cc, name) + 1 ELSE cc[k]]

\* for (const rel of graphData.relationships) { ... if (src && tgt) ... }
RECURSIVE ProcessLinks(_, _, _)
ProcessLinks(ns, rels, acc) ==
    IF rels = <<>> THEN acc
    ELSE LET rel == Head(rels)
             src == nodeMapGet(ns, rel.source)
             tgt == nodeMapGet(ns, rel.target)
         IN ProcessLinks(ns, Tail(rels),
               IF src # Undefined /\ tgt # Undefined
               THEN [links |-> Append(acc.links, [source |-> src, target |-> tgt]),
                     connectionCount |->
                         Bump(Bump(acc.connectionCount, RefName(ns, src)),
                              RefName(ns, tgt))]
               ELSE acc)

\* The three tiers of the force layout by node count: repulsion, link
\* distance, energy decay (in hundredths), synchronous fast-forward.
SimParams(n) ==
    [n |-> n,
     charge |-> IF n > 200 THEN -400 ELSE IF n > 100 THEN -600 ELSE -800,
     distance |-> IF n > 200 THEN 160 ELSE IF n > 100 THEN 220 ELSE 280,
     alphaDecay100 |-> IF n > 200 THEN 5 ELSE 2,
     fastForward |-> n > 200]

\* Where d3.forceSimulation puts node i before the first tick (its spiral
\* of radius 10 sqrt(i - 1/2), rounded to whole pixels).
InitialPos(i) ==
    << [x |-> 7, y |-> 0], [x |-> 0 - 9, y |-> 8], [x |-> 1, y |-> 0 - 16],
       [x |-> 11, y |-> 15] >>[i]

\* GraphRenderer.init, called once by the page's init
RendererInit ==
    /\ svg = FALSE
    /\ svg' = TRUE
    /\ container' = "svg"
    /\ transform' = Identity
    /\ op' = [m |-> "init", names |-> {}, had |-> FALSE]
    /\ UNCHANGED <<storeVars, httpVars, graphData, nodes, links, searchMatches,
                   isSearchActive, nodeElements, nodeLabels, linkElements,
                   linkLabels, rendered>>
    /\ UNCHANGED <<pos, pins, gestures, alphaTarget, minimap, simParams, ev>>
    /\ UNCHANGED <<currentGraphId, currentGraphData, fetches, loads, loading, appEvent,
                   searchInput, searchTimeout, searches, searchCount, cleared>>

NoClasses(n) == [i \in 1..n |-> {}]

\* graphData && graphData.nodes
HasNodes(gd) == "nodes" \in DOMAIN gd

\* GraphRenderer.render(graphData): nothing without an svg or without a node
\* list; else nodes, links, connection counts, fresh elements without
\* highlight classes, and a new simulation and drag behaviour.
render(gd) ==
    IF ~svg \/ ~HasNodes(gd)
    THEN UNCHANGED <<nodes, links, nodeElements, nodeLabels, linkElements,
                     linkLabels, rendered, op, pos, pins, gestures, alphaTarget,
                     simParams, ev>>
    ELSE /\ LET ns == MapNodes(gd)
                zero == [k \in {ns[i].name : i \in 1..Len(ns)} |-> 0]
                done == ProcessLinks(ns, gd.relationships,
                                     [links |-> <<>>, connectionCount |-> zero])
            IN /\ nodes' = [i \in 1..Len(ns) |->
                               [ns[i] EXCEPT !.connections =
                                                 CountOf(done.connectionCount, ns[i].name)]]
               /\ links' = done.links
               /\ nodeElements' = NoClasses(Len(ns))
               /\ nodeLabels' = NoClasses(Len(ns))
               /\ linkElements' = NoClasses(Len(done.links))
               /\ linkLabels' = NoClasses(Len(done.links))
               /\ pos' = [i \in 1..Len(ns) |-> InitialPos(i)]
               /\ pins' = [i \in 1..Len(ns) |-> NoPin]
               /\ simParams' = SimParams(Len(ns))
         /\ gestures' = {}
         /\ alphaTarget' = 0
         /\ ev' = Event("render", 0)
         /\ rendered' = TRUE
         /\ op' = [m |-> "render", names |-> {}, had |-> FALSE]

\* the page hands the fetched payload to the renderer
Render ==
    /\ svg
    /\ render(graphData)
    /\ UNCHANGED <<storeVars, httpVars, svg, graphData, searchMatches, isSearchActive>>
    /\ UNCHANGED <<transform, minimap, appVars>>

\* selection.classed(name, value) on one element
classed(classes, name, value) ==
    IF value THEN classes \cup {name} ELSE classes \ {name}

\* d => this.searchMatches.has(d.name.toLowerCase())
Matches(matches, name) == toLowerCase(name) \in matches

\* the fade test of a link and of its label
LinkFadedEither(matches, link) ==
    \/ ~Matches(matches, RefName(nodes, link.source))
    \/ ~Matches(matches, RefName(nodes, link.target))

LinkFaded(matches, link) ==
    /\ ~Matches(matches, RefName(nodes, link.source))
    /\ ~Matches(matches, RefName(nodes, link.target))

\* the clear branch on a label, a link or a link label
ClearFadedKeeps(classes) == classes

ClearFaded(classes) == classed(classes, "faded", FALSE)

\* some element carries a highlight class (recorded in op.had by the call
\* that follows)
AnyClassed ==
    \E els \in {nodeElements, nodeLabels, linkElements, linkLabels} :
        \E i \in DOMAIN els : els[i] # {}

\* GraphRenderer.highlightNodes(names)
highlightNodes(names) ==
    LET matches == {toLowerCase(n) : n \in names}
        active == names # {}
    IN /\ searchMatches' = matches
       /\ isSearchActive' = active
       /\ op' = [m |-> "highlightNodes", names |-> names, had |-> AnyClassed]
       /\ IF ~rendered
          THEN UNCHANGED <<nodeElements, nodeLabels, linkElements, linkLabels>>
          ELSE IF ~active
          THEN /\ nodeElements' = [i \in DOMAIN nodeElements |->
                     classed(classed(nodeElements[i], "highlighted", FALSE),
                             "faded", FALSE)]
               /\ nodeLabels' = [i \in DOMAIN nodeLabels |-> ClearFaded(nodeLabels[i])]
               /\ linkElements' = [i \in DOMAIN linkElements |-> ClearFaded(linkElements[i])]
               /\ linkLabels' = [i \in DOMAIN linkLabels |-> ClearFaded(linkLabels[i])]
          ELSE /\ nodeElements' = [i \in DOMAIN nodeElements |->
                     classed(classed(nodeElements[i], "highlighted",
                                     Matches(matches, nodes[i].name)),
                             "faded", ~Matches(matches, nodes[i].name))]
               /\ nodeLabels' = [i \in DOMAIN nodeLabels |->
                     classed(nodeLabels[i], "faded", ~Matches(matches, nodes[i].name))]
               /\ linkElements' = [i \in DOMAIN linkElements |->
                     classed(linkElements[i], "faded", LinkFaded(matches, links[i]))]
               /\ linkLabels' = [i \in DOMAIN linkLabels |->
                     classed(linkLabels[i], "faded", LinkFaded(matches, links[i]))]

\* a search result or a clear reaches the renderer
HighlightNodes(names) ==
    /\ highlightNodes(names)
    /\ UNCHANGED <<storeVars, httpVars, svg, graphData, nodes, links, rendered,
                   layoutVars, appVars>>

\* Payloads a full fetch can deliver: node ids 1, 2, ... in row order, names
\* possibly empty or repeated, relationship endpoints any names.
SeqsUpTo(S, n) == UNION {[1..k -> S] : k \in 0..n}

\* The relationships a payload of the model may carry, in any order and number.
RelPool ==
    {[source |-> "A", target |-> "A"],
     [source |-> "A", target |-> "a"],
     [source |-> "a", target |-> "A"],
     [source |-> "constructor", target |-> "A"],
     [source |-> "A", target |-> "constructor"],
     [source |-> "constructor", target |-> "constructor"]}

RenderPayloads ==
    {[nodes |-> [i \in 1..Len(nm) |-> [id |-> i, name |-> nm[i]]],
      relationships |-> rl] :
        nm \in SeqsUpTo(RNames \cup {""}, MaxRNodes),
        rl \in SeqsUpTo(RelPool, MaxRRels)}

InitRender ==
    /\ nodesTbl = <<>>
    /\ relsTbl = <<>>
    /\ graphsTbl = {}
    /\ req = NoReq
    /\ resp = NoResp
    /\ svg = FALSE
    /\ graphData \in RenderPayloads
    /\ nodes = <<>>
    /\ links = <<>>
    /\ searchMatches = {}
    /\ isSearchActive = FALSE
    /\ nodeElements = <<>>
    /\ nodeLabels = <<>>
    /\ linkElements = <<>>
    /\ linkLabels = <<>>
    /\ rendered = FALSE
    /\ op = [m |-> "none", names |-> {}, had |-> FALSE]
    /\ LayoutIdle
    /\ AppIdle

NextRender ==
    \/ RendererInit
    \/ Render
    \/ \E names \in SUBSET RNames : HighlightNodes(names)

SpecRender == InitRender /\ [][NextRender]_vars

(***************************************************************************)
(* Layout: simulation ticks, drag gestures, zoom, focusNode, the minimap   *)
(***************************************************************************)
\* this.width, this.height: the container's size
Width == 800
Height == 600

\* the minimap canvas and its padding
MinimapW == 160
MinimapH == 120
MinimapPad == 10

\* pointers that can hold a drag gesture at the same time (touches)
MaxPointers == 2
Pointers == 1..MaxPointers

\* Positions a tick or a pointer can produce, one of them on the line x = 0.
PosPool == {[x |-> 0, y |-> 40], [x |-> 100, y |-> 40], [x |-> 100, y |-> 200]}

\* Transforms a wheel or pan gesture, or zoomToFit, can produce.
ZoomPool == {Identity, [k2 |-> 1, x2 |-> 200, y2 |-> 100]}

\* The graphs the layout is exercised on: one node, two nodes, two nodes of
\* one name.
LayoutPayloads ==
    {[nodes |-> [i \in 1..Len(nm) |-> [id |-> i, name |-> nm[i]]],
      relationships |-> rl] :
        nm \in {<<"A">>, <<"A", "a">>, <<"A", "A">>},
        rl \in {<<>>, <<[source |-> "A", target |-> "A"]>>}}

FocusNames == {"A", "a", "constructor"}

SetMin(S) == CHOOSE m \in S : \A k \in S : m <= k
SetMax(S) == CHOOSE m \in S : \A k \in S : k <= m

\* maxX - minX || 1
RangeOr1(lo, hi) == IF hi - lo = 0 THEN 1 ELSE hi - lo

\* GraphRenderer.updateMinimap: the dot of every node, each coordinate a
\* fraction num / den of a pixel (scale = sn / sd, den = 2 sd).  Without
\* nodes the canvas keeps what it showed.
updateMinimap(ps, old) ==
    IF Len(ps) = 0 THEN old
    ELSE LET minX == SetMin({ps[i].x : i \in 1..Len(ps)})
             maxX == SetMax({ps[i].x : i \in 1..Len(ps)})
             minY == SetMin({ps[i].y : i \in 1..Len(ps)})
             maxY == SetMax({ps[i].y : i \in 1..Len(ps)})
             rangeX == RangeOr1(minX, maxX)
             rangeY == RangeOr1(minY, maxY)
             byX == (MinimapW - MinimapPad * 2) * rangeY
                        <= (MinimapH - MinimapPad * 2) * rangeX
             sn == IF byX THEN MinimapW - MinimapPad * 2 ELSE MinimapH - MinimapPad * 2
             sd == IF byX THEN rangeX ELSE rangeY
         IN [i \in 1..Len(ps) |->
                [xn |-> 2 * (ps[i].x - minX) * sn + MinimapW * sd - rangeX * sn,
                 yn |-> 2 * (ps[i].y - minY) * sn + MinimapH * sd - rangeY * sn,
                 den |-> 2 * sd]]

PinAt(p) == [set |-> TRUE, fx |-> p.x, fy |-> p.y]

\* One step of the simulation timer: a pinned node sits on its pin, any
\* other node moves where the forces take it; then _tick redraws the minimap.
Tick ==
    /\ rendered
    /\ nodes # <<>>
    /\ \E ps \in [1..Len(nodes) -> PosPool] :
          /\ \A i \in 1..Len(nodes) :
                pins[i].set => ps[i] = [x |-> pins[i].fx, y |-> pins[i].fy]
          /\ pos' = ps
          /\ minimap' = updateMinimap(ps, minimap)
    /\ ev' = Event("tick", 0)
    /\ UNCHANGED <<storeVars, httpVars, rendVars, appVars>>
    /\ UNCHANGED <<pins, gestures, alphaTarget, transform, simParams>>

\* alphaTarget after a drag start that found event.active gestures under way
StartTarget(active, cur) == IF active = 0 THEN 3 ELSE cur

\* alphaTarget after a drag end that leaves event.active gestures under way
EndTarget(active, cur) == IF active = 0 THEN 0 ELSE cur

\* drag 'start' of pointer p on node i
DragStart(p, i) ==
    /\ rendered
    /\ i \in 1..Len(nodes)
    /\ \A g \in gestures : g.pointer # p
    /\ alphaTarget' = StartTarget(Cardinality(gestures), alphaTarget)
    /\ pins' = [pins EXCEPT ![i] = PinAt(pos[i])]
    /\ gestures' = gestures \cup {[pointer |-> p, node |-> i]}
    /\ ev' = Event("start", i)
    /\ UNCHANGED <<storeVars, httpVars, rendVars, appVars>>
    /\ UNCHANGED <<pos, transform, minimap, simParams>>

\* drag 'drag' of pointer p, now at position at
Drag(p, at) ==
    /\ \E g \in gestures :
          /\ g.pointer = p
          /\ pins' = [pins EXCEPT ![g.node] = PinAt(at)]
          /\ ev' = Event("drag", g.node)
    /\ UNCHANGED <<storeVars, httpVars, rendVars, appVars>>
    /\ UNCHANGED <<pos, gestures, alphaTarget, transform, minimap, simParams>>

\* drag 'end' of pointer p
DragEnd(p) ==
    /\ \E g \in gestures :
          /\ g.pointer = p
          /\ gestures' = gestures \ {g}
          /\ alphaTarget' = EndTarget(Cardinality(gestures) - 1, alphaTarget)
          /\ pins' = [pins EXCEPT ![g.node] = NoPin]
          /\ ev' = Event("end", g.node)
    /\ UNCHANGED <<storeVars, httpVars, rendVars, appVars>>
    /\ UNCHANGED <<pos, transform, minimap, simParams>>

\* the zoom behaviour's 'zoom' event: the group takes the transform and the
\* minimap is redrawn
Zoom(t) ==
    /\ svg
    /\ transform' = t
    /\ minimap' = updateMinimap(pos, minimap)
    /\ ev' = Event("zoom", 0)
    /\ UNCHANGED <<storeVars, httpVars, rendVars, appVars>>
    /\ UNCHANGED <<pos, pins, gestures, alphaTarget, simParams>>

\* this.nodes.find(n => n.name === name): index of the first such node, or 0
FindByName(name) ==
    LET hits == {i \in 1..Len(nodes) : nodes[i].name = name}
    IN IF hits = {} THEN 0 ELSE SetMin(hits)

\* !node.x
NoX(x) == x = 0

\* GraphRenderer.focusNode(name), with the transition run to its end
focusNode(name) ==
    /\ svg
    /\ LET i == FindByName(name)
       IN /\ ev' = [type |-> "focus", node |-> i, name |-> name, before |-> transform]
          /\ IF i = 0 \/ NoX(pos[i].x)
             THEN UNCHANGED <<transform, minimap>>
             ELSE /\ transform' = [k2 |-> 3, x2 |-> Width - 3 * pos[i].x,
                                   y2 |-> Height - 3 * pos[i].y]
                  /\ minimap' = updateMinimap(pos, minimap)
    /\ UNCHANGED <<storeVars, httpVars, rendVars, appVars>>
    /\ UNCHANGED <<pos, pins, gestures, alphaTarget, simParams>>

\* the first and only render of the graph under layout
RenderOnce ==
    /\ ~rendered
    /\ Render

InitLayout ==
    /\ nodesTbl = <<>>
    /\ relsTbl = <<>>
    /\ graphsTbl = {}
    /\ req = NoReq
    /\ resp = NoResp
    /\ graphData \in LayoutPayloads
    /\ svg = FALSE
    /\ nodes = <<>>
    /\ links = <<>>
    /\ searchMatches = {}
    /\ isSearchActive = FALSE
    /\ nodeElements = <<>>
    /\ nodeLabels = <<>>
    /\ linkElements = <<>>
    /\ linkLabels = <<>>
    /\ rendered = FALSE
    /\ op = [m |-> "none", names |-> {}, had |-> FALSE]
    /\ LayoutIdle
    /\ AppIdle

NextLayout ==
    \/ RendererInit
    \/ RenderOnce
    \/ Tick
    \/ \E p \in Pointers, i \in 1..MaxRNodes : DragStart(p, i)
    \/ \E p \in Pointers, at \in PosPool : Drag(p, at)
    \/ \E p \in Pointers : DragEnd(p)
    \/ \E t \in ZoomPool : Zoom(t)
    \/ \E name \in FocusNames : focusNode(name)

SpecLayout == InitLayout /\ [][NextLayout]_vars

\* largest node count the layout parameters are computed for
MaxNodeCount == 205

\* render creates the simulation for a graph of n nodes
CreateSimulation(n) ==
    /\ simParams' = SimParams(n)
    /\ UNCHANGED <<storeVars, httpVars, rendVars, appVars>>
    /\ UNCHANGED <<pos, pins, gestures, alphaTarget, transform, minimap, ev>>

InitTier ==
    /\ nodesTbl = <<>>
    /\ relsTbl = <<>>
    /\ graphsTbl = {}
    /\ req = NoReq
    /\ resp = NoResp
    /\ RendIdle
    /\ LayoutIdle
    /\ AppIdle

NextTier == \E n \in 0..MaxNodeCount : CreateSimulation(n)

SpecTier == InitTier /\ [][NextTier]_vars

(***************************************************************************)
(* The page (app.js): loadGraph and its fetch                              *)
(***************************************************************************)
\* most loadGraph calls of a run
MaxLoads == 2

\* Graph ids a loadGraph call may carry; the store holds the first two.
AppGraphIds == {"g1", "g2", "g3"}

RowsOf(tbl, id) == SelectSeq(tbl, LAMBDA r : r.graph_id = id)

\* GET /api/graph/:id.  A node row's TEXT id is represented by the row's
\* ordinal in the answer.
FullGraph(id) ==
    IF ~\E g \in graphsTbl : g.id = id
    THEN [status |-> 404, error |-> "Graph not found"]
    ELSE LET ns == RowsOf(nodesTbl, id)
         IN [status |-> 200, id |-> id,
             nodes |-> [i \in 1..Len(ns) |-> [id |-> i, name |-> ns[i].name]],
             relationships |-> RowsOf(relsTbl, id)]

\* API.graph: fetch(...).then(r => r.json()) hands on the body whatever the
\* status.
ApiGraph(id) ==
    LET r == FullGraph(id)
    IN IF r.status = 200
       THEN [id |-> r.id, nodes |-> r.nodes, relationships |-> r.relationships]
       ELSE [error |-> r.error]

\* what showEmpty leaves in #graph-container
showEmptyKeepsSvg == "svg"

showEmpty == "empty"

\* loadGraph(graphId) up to its await: the guard, the new current id, the
\* loading overlay, clearSearch, and the fetch.
LoadGraph(graphId) ==
    /\ ~(currentGraphId = graphId /\ currentGraphData # NoData)
    /\ loads < MaxLoads
    /\ currentGraphId' = graphId
    /\ loading' = TRUE
    /\ highlightNodes({})
    /\ loads' = loads + 1
    /\ fetches' = fetches \cup {[seq |-> loads + 1, id |-> graphId,
                                 afterEmpty |-> container = "empty"]}
    /\ appEvent' = [e |-> "loadGraph", seq |-> loads + 1, id |-> graphId,
                    afterEmpty |-> container = "empty"]
    /\ searchInput' = ""
    /\ cleared' = TRUE
    /\ UNCHANGED <<storeVars, httpVars, svg, graphData, nodes, links, rendered,
                   layoutVars, currentGraphData, container, searchTimeout, searches,
                   searchCount>>

\* the fetch of one loadGraph call resolves: the rest of its try block
FetchResolve(f) ==
    /\ f \in fetches
    /\ fetches' = fetches \ {f}
    /\ LET body == ApiGraph(f.id)
       IN /\ currentGraphData' = body
          /\ render(body)
          /\ graphData' = IF svg /\ HasNodes(body) THEN body ELSE graphData
    /\ loading' = FALSE
    /\ appEvent' = [e |-> "resolved", seq |-> f.seq, id |-> f.id,
                    afterEmpty |-> f.afterEmpty]
    /\ UNCHANGED <<storeVars, httpVars, svg, searchMatches, isSearchActive,
                   transform, minimap, currentGraphId, loads, container,
                   searchInput, searchTimeout, searches, searchCount, cleared>>

\* the fetch of one loadGraph call rejects: the catch block
FetchReject(f) ==
    /\ f \in fetches
    /\ fetches' = fetches \ {f}
    /\ loading' = FALSE
    /\ container' = showEmpty
    /\ appEvent' = [e |-> "rejected", seq |-> f.seq, id |-> f.id,
                    afterEmpty |-> f.afterEmpty]
    /\ UNCHANGED <<storeVars, httpVars, rendVars, layoutVars, currentGraphId,
                   currentGraphData, loads, searchInput, searchTimeout, searches,
                   searchCount, cleared>>

FetchPool == [seq : 1..MaxLoads, id : AppGraphIds, afterEmpty : BOOLEAN]

\* most searches issued in a run
MaxSearches == 2

\* What the user leaves in the search field (trimmed): nothing, or a letter
\* of the name A.
UiQueries == {"", "a"}

SearchPool == [seq : 1..MaxSearches, id : AppGraphIds, q : UiQueries \ {""}]

\* the 'input' handler of the search field, the field now holding q
SearchInput(q) ==
    /\ searchInput' = q
    /\ IF q = ""
       THEN /\ searchTimeout' = NoTimer
            /\ highlightNodes({})
            /\ UNCHANGED cleared
       ELSE /\ searchTimeout' = [set |-> TRUE, q |-> q]
            /\ cleared' = FALSE
            /\ UNCHANGED <<searchMatches, isSearchActive, op, nodeElements,
                           nodeLabels, linkElements, linkLabels>>
    /\ UNCHANGED <<storeVars, httpVars, svg, graphData, nodes, links, rendered,
                   layoutVars, currentGraphId, currentGraphData, fetches, loads,
                   container, loading, appEvent, searches, searchCount>>

\* the debounce timer fires: performSearch(q) up to its await
SearchTimer ==
    /\ searchTimeout.set
    /\ searchCount < MaxSearches
    /\ searchTimeout' = NoTimer
    /\ IF currentGraphId = ""
       THEN UNCHANGED <<searches, searchCount>>
       ELSE /\ searchCount' = searchCount + 1
            /\ searches' = searches \cup {[seq |-> searchCount + 1,
                                           id |-> currentGraphId,
                                           q |-> searchTimeout.q]}
    /\ UNCHANGED <<storeVars, httpVars, rendVars, layoutVars, currentGraphId,
                   currentGraphData, fetches, loads, container, loading, appEvent,
                   searchInput, cleared>>

\* the search resolves: the result list is shown and its names highlighted
SearchResolve(s) ==
    /\ s \in searches
    /\ searches' = searches \ {s}
    /\ LET results == Search(s.id, s.q).rows
       IN highlightNodes({results[i].name : i \in 1..Len(results)})
    /\ UNCHANGED <<storeVars, httpVars, svg, graphData, nodes, links, rendered,
                   layoutVars, currentGraphId, currentGraphData, fetches, loads,
                   container, loading, appEvent, searchInput, searchTimeout,
                   searchCount, cleared>>

\* the search rejects: the catch block logs
SearchReject(s) ==
    /\ s \in searches
    /\ searches' = searches \ {s}
    /\ UNCHANGED <<storeVars, httpVars, rendVars, layoutVars, currentGraphId,
                   currentGraphData, fetches, loads, container, loading, appEvent,
                   searchInput, searchTimeout, searchCount, cleared>>

\* Escape in the search field: clearSearch
Escape ==
    /\ searchInput' = ""
    /\ highlightNodes({})
    /\ cleared' = TRUE
    /\ UNCHANGED <<storeVars, httpVars, svg, graphData, nodes, links, rendered,
                   layoutVars, currentGraphId, currentGraphData, fetches, loads,
                   container, loading, appEvent, searchTimeout, searches,
                   searchCount>>

\* The page after GraphRenderer.init, the store holding graphs g1 and g2.
InitApp ==
    /\ nodesTbl = NodeRows("g1", {"A", "B"}) \o NodeRows("g2", {"C"})
    /\ relsTbl = RelRows("g1", {"r2"})
    /\ graphsTbl = {GraphRow("g1", {"A", "B"}, {"r2"}), GraphRow("g2", {"C"}, {})}
    /\ req = NoReq
    /\ resp = NoResp
    /\ svg = TRUE
    /\ graphData = [nodes |-> <<>>, relationships |-> <<>>]
    /\ nodes = <<>>
    /\ links = <<>>
    /\ searchMatches = {}
    /\ isSearchActive = FALSE
    /\ nodeElements = <<>>
    /\ nodeLabels = <<>>
    /\ linkElements = <<>>
    /\ linkLabels = <<>>
    /\ rendered = FALSE
    /\ op = [m |-> "init", names |-> {}, had |-> FALSE]
    /\ LayoutIdle
    /\ currentGraphId = ""
    /\ currentGraphData = NoData
    /\ fetches = {}
    /\ loads = 0
    /\ container = "svg"
    /\ loading = TRUE
    /\ appEvent = NoAppEvent
    /\ SearchIdle

NextApp ==
    \/ \E g \in AppGraphIds : LoadGraph(g)
    \/ \E f \in FetchPool : FetchResolve(f)
    \/ \E f \in FetchPool : FetchReject(f)
    \/ \E q \in UiQueries : SearchInput(q)
    \/ SearchTimer
    \/ \E s \in SearchPool : SearchResolve(s)
    \/ \E s \in SearchPool : SearchReject(s)
    \/ Escape

SpecApp == InitApp /\ [][NextApp]_vars

(***************************************************************************)
(* POST /api/sync                                                          *)
(***************************************************************************)
\* longest node list of a sync payload
MaxSyncNodes == 2

\* process.env.SYNC_KEY and the x-sync-key headers of the requests
SYNC_KEY == "key"
SyncKeys == {"key", "other"}

\* the id of the body: missing, or one of two graphs
SyncIds == {"", "g1", "g2"}

\* Payload nodes carry a name and no id; a list may repeat a name.
SyncNodeLists == SeqsUpTo({"A", "B"}, MaxSyncNodes)

\* Payload relationships carry an id; a list may repeat one.
SyncRelLists ==
    {<<>>, <<EdgePool[2]>>, <<EdgePool[2], EdgePool[6]>>, <<EdgePool[2], EdgePool[2]>>}

\* INSERT row by row; the PRIMARY KEY (graph_id, id) makes the insert of a
\* second row with the key of a stored one throw, after the rows before it
\* were written.
RECURSIVE InsertAll(_, _)
InsertAll(tbl, rows) ==
    IF rows = <<>> THEN [ok |-> TRUE, tbl |-> tbl]
    ELSE IF \E i \in 1..Len(tbl) :
                tbl[i].graph_id = Head(rows).graph_id /\ tbl[i].id = Head(rows).id
    THEN [ok |-> FALSE, tbl |-> tbl]
    ELSE InsertAll(Append(tbl, Head(rows)), Tail(rows))

\* INSERT INTO graphs ... ON CONFLICT(id) DO UPDATE
upsertGraph(tbl, id, nodeCount, relCount) ==
    {g \in tbl : g.id # id}
        \cup {[id |-> id, node_count |-> nodeCount, rel_count |-> relCount]}

\* The body of syncTransaction: the tables as it leaves them when it returns
\* (ok) or throws (not ok).
syncTransaction(id, nodeList, relList) ==
    LET n0 == SelectSeq(nodesTbl, LAMBDA r : r.graph_id # id)
        r0 == SelectSeq(relsTbl, LAMBDA r : r.graph_id # id)
        ni == InsertAll(n0, MapSeq(insertNode, id, nodeList))
        ri == InsertAll(r0, MapSeq(insertRel, id, relList))
    IN IF ~ni.ok
       THEN [ok |-> FALSE, nodes |-> ni.tbl, rels |-> r0, graphs |-> graphsTbl]
       ELSE IF ~ri.ok
       THEN [ok |-> FALSE, nodes |-> ni.tbl, rels |-> ri.tbl, graphs |-> graphsTbl]
       ELSE [ok |-> TRUE, nodes |-> ni.tbl, rels |-> ri.tbl,
             graphs |-> upsertGraph(graphsTbl, id, Len(nodeList), Len(relList))]

\* db.transaction(...): commit when the body returns, roll back when it throws
transactionNoRollback(before, run) == run

transaction(before, run) == IF run.ok THEN run ELSE before

\* POST /api/sync with header key and body {id, nodes, relationships}
Sync(key, id, nodeList, relList) ==
    /\ req' = [kind |-> "sync", id |-> id, key |-> key]
    /\ IF key # SYNC_KEY
       THEN /\ resp' = [status |-> 403, error |-> "Invalid sync key"]
            /\ UNCHANGED storeVars
       ELSE IF id = ""
       THEN /\ resp' = [status |-> 400, error |-> "Missing graph id"]
            /\ UNCHANGED storeVars
       ELSE LET before == [ok |-> FALSE, nodes |-> nodesTbl, rels |-> relsTbl,
                           graphs |-> graphsTbl]
                run == syncTransaction(id, nodeList, relList)
                after == transaction(before, run)
            IN /\ nodesTbl' = after.nodes
               /\ relsTbl' = after.rels
               /\ graphsTbl' = after.graphs
               /\ resp' = IF run.ok
                          THEN [status |-> 200, graph |-> id,
                                nodes |-> Len(nodeList),
                                relationships |-> Len(relList)]
                          ELSE [status |-> 500, error |-> "constraint failed"]
    /\ UNCHANGED <<rendVars, layoutVars, appVars>>

\* A server started on an empty database.
InitSync ==
    /\ nodesTbl = <<>>
    /\ relsTbl = <<>>
    /\ graphsTbl = {}
    /\ req = NoReq
    /\ resp = NoResp
    /\ RendIdle
    /\ LayoutIdle
    /\ AppIdle

NextSync ==
    \E key \in SyncKeys, id \in SyncIds, nodeList \in SyncNodeLists,
       relList \in SyncRelLists : Sync(key, id, nodeList, relList)

SpecSync == InitSync /\ [][NextSync]_vars

(***************************************************************************)
(* Properties of neighbor expansion                                        *)
(***************************************************************************)
NodeNames(rows) == {rows[i].name : i \in 1..Len(rows)}

StoredRels(graphId) == {r \in Range(relsTbl) : r.graph_id = graphId}

HasNodeRow(graphId, name) ==
    \E i \in 1..Len(nodesTbl) :
        nodesTbl[i].graph_id = graphId /\ nodesTbl[i].name = name

\* The names within k undirected hops of the names S along the stored
\* relationships of the graph, whether or not a name has a node row.
RECURSIVE Ball(_, _, _)
Ball(graphId, S, k) ==
    IF k <= 0 THEN S
    ELSE Ball(graphId,
              S \cup {r.source : r \in {x \in StoredRels(graphId) : x.target \in S}}
                \cup {r.target : r \in {x \in StoredRels(graphId) : x.source \in S}},
              k - 1)

NoDangling(graphId) ==
    \A r \in StoredRels(graphId) :
        HasNodeRow(graphId, r.source) /\ HasNodeRow(graphId, r.target)

RelIdsOf(rows) == {rows[i].id : i \in 1..Len(rows)}

Answered == resp.status = 200 /\ req.kind = "node"

\* The graph g1 holds exactly the four names and the given relationships.
Holds(relIdSet) ==
    /\ NodeNames(SelectSeq(nodesTbl, LAMBDA n : n.graph_id = "g1")) = Names
    /\ {r.id : r \in StoredRels("g1")} = relIdSet

Diamond == Holds({"r2", "r4", "r5", "r1"})

Chain == Holds({"r2", "r3", "r1"})

\* C1: expansion with a requested depth <= 0 returns exactly the node list
\* [n] and an empty relationship list.
C1_DepthZeroOnlyStart ==
    (Answered /\ req.hasDepth /\ req.depth <= 0)
        => /\ Len(resp.nodes) = 1
           /\ resp.nodes[1].name = req.name
           /\ resp.relationships = <<>>

\* C2: on one store snapshot, the names returned at depth d1 are among the
\* names returned at every larger depth d2.
C2_DepthMonotone ==
    (Answered /\ req.hasDepth)
        => \A d2 \in DepthReqs :
              d2 > req.depth
                  => NodeNames(resp.nodes)
                        \subseteq NodeNames(Expand(req.id, req.name, TRUE, d2).nodes)

C2_Witness ==
    /\ Answered /\ req.hasDepth /\ req.depth = 1
    /\ NodeNames(resp.nodes) # NodeNames(Expand(req.id, req.name, TRUE, 2).nodes)
    /\ Cardinality(NodeNames(resp.nodes)) > 1

\* C3: the returned relationship list holds each stored relationship (graph_id,
\* id) at most once; the diamond expanded from A at depth 2 returns the four
\* nodes and each of the four edges exactly once.
C3_NoDuplicateRels ==
    Answered
        => /\ \A i, j \in 1..Len(resp.relationships) :
                 RelKey(resp.relationships[i]) = RelKey(resp.relationships[j]) => i = j
           /\ (Diamond /\ req.id = "g1" /\ req.name = "A" /\ req.hasDepth /\ req.depth = 2)
                 => /\ NodeNames(resp.nodes) = Names
                    /\ Len(resp.nodes) = 4
                    /\ RelIdsOf(resp.relationships) = {"r2", "r4", "r5", "r1"}
                    /\ Len(resp.relationships) = 4

C3_Witness ==
    /\ Answered /\ Diamond
    /\ req.id = "g1" /\ req.name = "A" /\ req.hasDepth /\ req.depth = 2
    /\ Len(resp.relationships) = 4

\* C4: without dangling relationships, expansion with effective depth d in
\* 1..3 returns exactly the nodes at undirected distance <= d, and every
\* returned relationship is a stored row, source and target as stored; on the
\* chain, depth 1 from A gives {A,B} with {A->B}, depth 2 gives {A,B,C} with
\* {A->B, B->C}.
C4_NodesWithinDistance ==
    (Answered /\ NoDangling(req.id))
        => LET d == EffDepth(req.hasDepth, req.depth)
           IN /\ d \in 1..MaxDepth
                    => NodeNames(resp.nodes) = Ball(req.id, {req.name}, d)
              /\ Range(resp.relationships) \subseteq StoredRels(req.id)
              /\ (Chain /\ req.id = "g1" /\ req.name = "A" /\ req.hasDepth /\ req.depth = 1)
                    => /\ NodeNames(resp.nodes) = {"A", "B"}
                       /\ RelIdsOf(resp.relationships) = {"r2"}
              /\ (Chain /\ req.id = "g1" /\ req.name = "A" /\ req.hasDepth /\ req.depth = 2)
                    => /\ NodeNames(resp.nodes) = {"A", "B", "C"}
                       /\ RelIdsOf(resp.relationships) = {"r2", "r3"}

C4_Witness ==
    /\ Answered /\ Chain
    /\ req.id = "g1" /\ req.name = "A" /\ req.hasDepth /\ req.depth = 2
    /\ NodeNames(resp.nodes) = {"A", "B", "C"}

\* C5 as claimed, for requested depths >= 1: every stored relationship with
\* both endpoints in the returned node list is in the returned relationship
\* list.
C5_InducedSubgraph ==
    (Answered /\ req.hasDepth /\ req.depth >= 1)
        => \A r \in StoredRels(req.id) :
              (r.source \in NodeNames(resp.nodes) /\ r.target \in NodeNames(resp.nodes))
                  => r \in Range(resp.relationships)

\* C5 amended: with requested depth d >= 1 and e = min(d, 3), every stored
\* relationship with an endpoint within e-1 undirected hops of the start name
\* is returned, and nothing else is.
C5_RelsOfExpandedNames ==
    (Answered /\ req.hasDepth /\ req.depth >= 1)
        => LET e == Min2(req.depth, MaxDepth)
               B == Ball(req.id, {req.name}, e - 1)
           IN Range(resp.relationships)
                 = {r \in StoredRels(req.id) : r.source \in B \/ r.target \in B}

C5_Witness ==
    /\ Answered /\ req.hasDepth /\ req.depth = 2
    /\ \E r \in Range(resp.relationships) : r.source # req.name /\ r.target # req.name
    /\ \E r \in StoredRels(req.id) :
          /\ r.source \in NodeNames(resp.nodes)
          /\ r.target \in NodeNames(resp.nodes)
          /\ r \notin Range(resp.relationships)

\* C6: a start name without a node row in the graph is answered 404 with an
\* error body and neither a node list nor a relationship list, at any depth.
C6_NotFound ==
    (req.kind = "node" /\ resp # NoResp /\ ~HasNodeRow(req.id, req.name))
        => /\ resp.status = 404
           /\ DOMAIN resp = {"status", "error"}

C6_Witness ==
    /\ req.kind = "node" /\ resp.status = 404
    /\ req.id = "g1" /\ HasNodeRow("g2", req.name)
    /\ req.hasDepth /\ req.depth = 2

\* C7: at most 3 rounds run, a requested depth above 3 answers as depth 3
\* does, and no round runs on an empty frontier.
C7_AtMostThreeRounds ==
    Answered
        => /\ Len(resp.expanded) <= 3
           /\ \A i \in 1..Len(resp.expanded) : resp.expanded[i] # <<>>
           /\ (req.hasDepth /\ req.depth > 3)
                 => resp = Expand(req.id, req.name, TRUE, 3)

C7_Witness ==
    /\ Answered /\ req.hasDepth /\ req.depth > 3
    /\ Len(resp.expanded) = 3
    /\ Cardinality(NodeNames(resp.nodes)) = 4

(***************************************************************************)
(* Properties of the renderer                                              *)
(***************************************************************************)
\* Number of rendered links that have node object v on the given side.
LinksFrom(v) == Cardinality({i \in 1..Len(links) : links[i].source = NodeRef(v)})

LinksTo(v) == Cardinality({i \in 1..Len(links) : links[i].target = NodeRef(v)})

PayloadNames == {nodes[i].name : i \in 1..Len(nodes)}

\* The payload's relationships whose endpoints both name a node of it.
Resolvable ==
    {i \in 1..Len(graphData.relationships) :
        /\ graphData.relationships[i].source \in PayloadNames
        /\ graphData.relationships[i].target \in PayloadNames}

\* C8: after render, v.connections is the number of rendered links whose
\* source is v plus the number whose target is v, for every node object v.
C8_ConnectionsCountLinks ==
    (rendered /\ op.m = "render")
        => \A v \in 1..Len(nodes) : nodes[v].connections = LinksFrom(v) + LinksTo(v)

\* C9: after render, every link joins node objects of the active node list,
\* and a relationship with an endpoint naming no node of the payload adds
\* neither a link nor a connection.
C9_LinksJoinNodes ==
    (rendered /\ op.m = "render")
        => /\ \A i \in 1..Len(links) :
                 /\ links[i].source.kind = "node"
                 /\ links[i].target.kind = "node"
           /\ Len(links) = Cardinality(Resolvable)
           /\ \A v \in 1..Len(nodes) :
                 nodes[v].connections =
                     Cardinality({i \in Resolvable :
                         graphData.relationships[i].source = nodes[v].name})
                   + Cardinality({i \in Resolvable :
                         graphData.relationships[i].target = nodes[v].name})

Highlighted == rendered /\ op.m = "highlightNodes" /\ op.names # {}

\* C10 as claimed: a node is highlighted exactly when its name is an element
\* of names and faded exactly when it is not; a link and its label are faded
\* exactly when neither endpoint's name is an element of names.
C10_HighlightByName ==
    Highlighted
        => /\ \A i \in 1..Len(nodes) :
                 /\ "highlighted" \in nodeElements[i] <=> nodes[i].name \in op.names
                 /\ "faded" \in nodeElements[i] <=> nodes[i].name \notin op.names
           /\ \A i \in 1..Len(links) :
                 LET neither == /\ RefName(nodes, links[i].source) \notin op.names
                                /\ RefName(nodes, links[i].target) \notin op.names
                 IN /\ "faded" \in linkElements[i] <=> neither
                    /\ "faded" \in linkLabels[i] <=> neither

\* C10 amended: the same with names compared in lower case on both sides.
C10_HighlightByLowerCaseName ==
    Highlighted
        => LET lower == {toLowerCase(n) : n \in op.names}
           IN /\ \A i \in 1..Len(nodes) :
                    LET hit == toLowerCase(nodes[i].name) \in lower
                    IN /\ "highlighted" \in nodeElements[i] <=> hit
                       /\ "faded" \in nodeElements[i] <=> ~hit
                       /\ "faded" \in nodeLabels[i] <=> ~hit
              /\ \A i \in 1..Len(links) :
                    LET neither ==
                          /\ toLowerCase(RefName(nodes, links[i].source)) \notin lower
                          /\ toLowerCase(RefName(nodes, links[i].target)) \notin lower
                    IN /\ "faded" \in linkElements[i] <=> neither
                       /\ "faded" \in linkLabels[i] <=> neither

C10_Witness ==
    /\ Highlighted
    /\ \E i \in 1..Len(nodes) :
          "highlighted" \in nodeElements[i] /\ nodes[i].name \notin op.names
    /\ \E i \in 1..Len(nodes) : "faded" \in nodeElements[i]
    /\ \E i \in 1..Len(links) : "faded" \in linkElements[i]
    /\ \E i \in 1..Len(links) : "faded" \notin linkElements[i]

(***************************************************************************)
(* Properties of highlightNodes([])                                        *)
(***************************************************************************)
Cleared == rendered /\ op.m = "highlightNodes" /\ op.names = {}

HighlightClasses == {"highlighted", "faded"}

\* C11: after highlightNodes([]) on a rendered graph, whatever highlightNodes
\* calls came before, no node, node label, link or link label carries the
\* class highlighted or faded, and the state is a fixed point of the call:
\* every field it assigns already has the value it assigns.
C11_ClearIsNeutral ==
    Cleared
        => /\ \A els \in {nodeElements, nodeLabels, linkElements, linkLabels} :
                 \A i \in DOMAIN els : els[i] \cap HighlightClasses = {}
           /\ searchMatches = {}
           /\ isSearchActive = FALSE
           /\ \A i \in DOMAIN nodeElements :
                 nodeElements[i] \ HighlightClasses = nodeElements[i]
           /\ \A els \in {nodeLabels, linkElements, linkLabels} :
                 \A i \in DOMAIN els : els[i] \ {"faded"} = els[i]

\* a clear that followed a highlight which had marked elements of a graph
\* with nodes and links
C11_Witness ==
    /\ Cleared
    /\ op.had
    /\ nodes # <<>>
    /\ links # <<>>

(***************************************************************************)
(* Properties of the layout                                                *)
(***************************************************************************)
Abs(a) == IF a < 0 THEN 0 - a ELSE a

\* C12: with a single positioned node (a bounding box of no extent on either
\* axis) updateMinimap divides by nothing that is zero and draws the node
\* near the centre (80, 60) of the 160x120 minimap: no further from it, on
\* either axis, than the minimap's padding of 10 pixels.
C12_SingleNodeCentered ==
    (rendered /\ Len(nodes) = 1 /\ minimap # <<>>)
        => /\ Len(minimap) = 1
           /\ minimap[1].den # 0
           /\ Abs(2 * minimap[1].xn - MinimapW * minimap[1].den)
                 <= 2 * MinimapPad * minimap[1].den
           /\ Abs(2 * minimap[1].yn - MinimapH * minimap[1].den)
                 <= 2 * MinimapPad * minimap[1].den

\* C17: after focusNode(name) for a name of the active node list (every
\* rendered node has a simulated position) the transform has scale 1.5 and
\* maps the position of a node of that name to the viewport centre
\* (width/2, height/2), whatever it was before; for a name that is not in
\* the list the transform is the one from before the call.
C17_FocusCenters ==
    ev.type = "focus"
        => LET hits == {i \in 1..Len(nodes) : nodes[i].name = ev.name}
           IN IF hits # {}
              THEN /\ transform.k2 = 3
                   /\ \E i \in hits :
                         /\ 2 * Width = 2 * (transform.k2 * pos[i].x + transform.x2)
                         /\ 2 * Height = 2 * (transform.k2 * pos[i].y + transform.y2)
              ELSE transform = ev.before

\* C18: the layout parameters follow three tiers by node count N.  N > 200:
\* the short link distance (160), the weakest repulsion (400), the faster
\* energy decay and the synchronous fast-forward; 100 <= N <= 200: the
\* medium link distance (220) and repulsion (600); N < 100: the long link
\* distance (280) and the strongest repulsion (800).  So neither grows with N.
C18_ThreeTiers ==
    simParams # NoSim
        => LET N == simParams.n
           IN /\ N > 200 => /\ simParams.distance = 160
                            /\ simParams.charge = 0 - 400
                            /\ simParams.alphaDecay100 = 5
                            /\ simParams.fastForward
              /\ (100 <= N /\ N <= 200) => /\ simParams.distance = 220
                                           /\ simParams.charge = 0 - 600
              /\ N < 100 => /\ simParams.distance = 280
                            /\ simParams.charge = 0 - 800
              /\ N <= 200 => (simParams.alphaDecay100 = 2 /\ ~simParams.fastForward)
              /\ \A m \in 0..N : /\ SimParams(m).distance >= simParams.distance
                                 /\ SimParams(m).charge <= simParams.charge

Dragged(i) == \E g \in gestures : g.node = i

\* C19: across drag start / drag / drag end events and simulation ticks a
\* node carries a pin exactly while a drag gesture on it is in progress, the
\* energy target is raised to 0.3 exactly while at least one drag is in
\* progress, and once the last drag has ended no node is pinned and the
\* energy target is 0.
C19_PinnedWhileDragged ==
    rendered
        => /\ \A i \in 1..Len(nodes) : pins[i].set <=> Dragged(i)
           /\ alphaTarget = IF gestures # {} THEN 3 ELSE 0
           /\ gestures = {} => \A i \in 1..Len(nodes) : pins[i] = NoPin

(***************************************************************************)
(* Properties of loadGraph                                                 *)
(***************************************************************************)
GraphStored(id) == \E g \in graphsTbl : g.id = id

ShowsGraph(id) ==
    /\ container = "svg"
    /\ currentGraphData = ApiGraph(id)
    /\ graphData = ApiGraph(id)
    /\ [i \in 1..Len(nodes) |-> nodes[i].name]
          = [i \in 1..Len(ApiGraph(id).nodes) |-> ApiGraph(id).nodes[i].name]

\* C13: when graphs are requested one after the other before the earlier
\* fetch has resolved, then once every fetch has resolved (none failed) the
\* rendered data and currentGraphData are those of the graph requested last,
\* the current graph id, in whatever order the responses arrived.
C13_LastRequestedWins ==
    (/\ fetches = {}
     /\ loads >= 2
     /\ container = "svg"
     /\ GraphStored(currentGraphId))
        => ShowsGraph(currentGraphId)

\* C14: when the fetch for a graph id the store does not hold has resolved
\* (a 404 with an error body) and that id is the current one, the view is in
\* the empty state: the container shows neither the svg left blank nor the
\* svg with the nodes and links of a graph loaded before.
C14_NotFoundShowsEmpty ==
    (/\ appEvent.e = "resolved"
     /\ appEvent.id = currentGraphId
     /\ ~GraphStored(currentGraphId)
     /\ fetches = {})
        => container = "empty"

AfterFailure == appEvent.e = "rejected" /\ fetches = {}

\* C15 as claimed: after a rejected fetch of one graph, with another graph
\* rendered before, that graph is still displayed and the current graph id
\* and data denote it.
C15_RevertsToPrevious ==
    (/\ AfterFailure
     /\ rendered
     /\ HasNodes(currentGraphData)
     /\ currentGraphData.id # appEvent.id)
        => /\ container = "svg"
           /\ currentGraphData.id = currentGraphId

\* C15 amended: a rejected fetch is not reverted.  It hides the loading
\* overlay and replaces the container's content by the empty state, and it
\* leaves the current graph id, the current graph data and the renderer's
\* state as they were when the rejection arrived.
C15_FailureShowsEmpty ==
    /\ [](appEvent.e = "rejected" => (container = "empty" /\ ~loading))
    /\ [][(appEvent' # appEvent /\ appEvent'.e = "rejected")
             => /\ currentGraphId' = currentGraphId
                /\ currentGraphData' = currentGraphData
                /\ UNCHANGED rendVars]_vars

\* the fetch of g2 was rejected while g1, loaded before, was rendered
C15_Witness ==
    /\ AfterFailure
    /\ rendered
    /\ nodes # <<>>
    /\ HasNodes(currentGraphData)
    /\ currentGraphData.id # currentGraphId
    /\ container = "empty"

(***************************************************************************)
(* Properties of search                                                    *)
(***************************************************************************)
\* str contains sub, letters compared without regard to case
ContainsFolded(str, sub) ==
    \E k \in 0..(Len(str) - Len(sub)) :
        \A j \in 1..Len(sub) : LowerChar(str[k + j]) = LowerChar(sub[j])

\* C16: a search answers at most 50 nodes, all of the graph asked for, the
\* name of each containing q as a substring (here even up to the case of
\* letters); an empty q answers the empty list.
C16_SearchBySubstring ==
    (req.kind = "search" /\ resp # NoResp)
        => /\ Len(resp.rows) <= SearchLimit
           /\ \A i \in 1..Len(resp.rows) :
                 /\ resp.rows[i].graph_id = req.id
                 /\ ContainsFolded(Chars(resp.rows[i].name), Chars(req.q))
           /\ req.q = "" => resp.rows = <<>>

(***************************************************************************)
(* Properties of sync                                                      *)
(***************************************************************************)
CountRows(tbl, id) == Cardinality({i \in 1..Len(tbl) : tbl[i].graph_id = id})

\* C20: after any sequence of sync requests, accepted, rejected (wrong key,
\* missing id) or failing part-way through the inserts, the node_count of
\* every graph row is the number of stored node rows of that graph and its
\* rel_count the number of stored relationship rows of that graph; and a
\* sync that is not answered with success leaves the three tables as they
\* were.
C20_SyncKeepsCounts ==
    /\ [](\A g \in graphsTbl :
             /\ g.node_count = CountRows(nodesTbl, g.id)
             /\ g.rel_count = CountRows(relsTbl, g.id))
    /\ [][(req'.kind = "sync" /\ resp'.status # 200) => UNCHANGED storeVars]_vars

\* a sync of a stored graph failed part-way (after its delete and its node
\* inserts) and the graph still has its two nodes and its relationship
C20_Witness ==
    /\ req.kind = "sync"
    /\ resp.status = 500
    /\ \E g \in graphsTbl :
          /\ g.id = req.id
          /\ g.node_count = 2
          /\ g.rel_count = 1
    /\ \E g \in graphsTbl : g.id # req.id

\* C22: the empty view is recoverable.  When showEmpty has run (a graph
\* fetch failed) and the fetch of a later loadGraph has resolved, for a graph
\* the store holds, the graph whose fetch had failed included, and nothing
\* is pending, that graph's nodes and links are displayed in the graph
\* container.
C22_EmptyViewRecovers ==
    (/\ appEvent.e = "resolved"
     /\ appEvent.afterEmpty
     /\ appEvent.id = currentGraphId
     /\ GraphStored(currentGraphId)
     /\ fetches = {}
     /\ rendered
     /\ currentGraphData = ApiGraph(currentGraphId))
        => ShowsGraph(currentGraphId)

(***************************************************************************)
(* Properties of the search field                                          *)
(***************************************************************************)
Neutral ==
    \A els \in {nodeElements, nodeLabels, linkElements, linkLabels} :
        \A i \in DOMAIN els : els[i] \cap HighlightClasses = {}

\* C21: from clearSearch (Escape, or a graph switch through loadGraph) until
\* the user types a new non-empty query no node, node label, link or link
\* label is highlighted or faded, also when a debounce timer was pending or
\* a search request was in flight at the clear.
C21_ClearedStaysNeutral == cleared => Neutral

\* The names of ns joined to the names S by at most k of the relationships
\* rels, counting only relationships with both endpoints in ns.
RECURSIVE LinkedWithin(_, _, _, _)
LinkedWithin(ns, rels, S, k) ==
    IF k <= 0 THEN S
    ELSE LinkedWithin(ns, rels,
              S \cup {r.source : r \in {x \in rels : x.target \in S /\ x.source \in ns}}
                \cup {r.target : r \in {x \in rels : x.source \in S /\ x.target \in ns}},
              k - 1)

\* C23: in every expansion result each returned node is joined to the start
\* node by a chain of returned relationships whose endpoints are all names
\* of returned nodes.
C23_LinkedThroughReturnedNodes ==
    Answered
        => LET ns == NodeNames(resp.nodes)
           IN LinkedWithin(ns, Range(resp.relationships), {req.name} \cap ns,
                           Cardinality(ns)) = ns


====
